---- MODULE Spec2Model ----
(***************************************************************************)
(* A model of the transcript service in src/app.py: the text normalizer,   *)
(* the subtitle parsers, the four-pass deduplication (nuclear_cleanup),    *)
(* the /transcript request handler with its acquisition fallback chain,    *)
(* and the working-directory handling of run_ytdlp_for_subs under two      *)
(* concurrent requests.                                                    *)
(*                                                                         *)
(* A text is a sequence of one-character strings.  A timestamp string is   *)
(* the record of its numeric fields and its decimal separator.  Seconds    *)
(* are kept as integer milliseconds.                                       *)
(***************************************************************************)
EXTENDS Integers, Sequences, FiniteSets, TLC

VARIABLES
    \* ---- normalize(), applied twice to one text
    x, nx, nnx, npc,
    \* ---- nuclear_cleanup(), pass by pass, then applied to its own output
    input, p1, p2, p3, out, again, cpc,
    \* ---- one /transcript request
    pc, segments, method, lang, attempted, response, clean,
    \* ---- two requests inside run_ytdlp_for_subs in one process
    cwd, exists, tpc, saved, looked, spawned, attempts, raising

normVars == <<x, nx, nnx, npc>>
cleanVars == <<input, p1, p2, p3, out, again, cpc>>
reqVars == <<pc, segments, method, lang, attempted, response, clean>>
cwdVars == <<cwd, exists, tpc, saved, looked, spawned, attempts, raising>>
vars == <<normVars, cleanVars, reqVars, cwdVars>>

(***************************************************************************)
(* Bounds of the model.                                                    *)
(***************************************************************************)
MaxLen == 3
MaxSegs == 3
MaxBlocks == 3
MaxChunks == 2

(***************************************************************************)
(* Characters.                                                             *)
(***************************************************************************)
TAB == "\t"
LowerCase == {"a", "b", "c", "d", "e", "h", "l", "o", "r", "w"}
UpperCase == {"A", "B", "C"}
Digits == {"1"}
Whitespace == {" ", TAB}

\* str.lower() on one character
lower(c) ==
    IF c = "A" THEN "a" ELSE IF c = "B" THEN "b" ELSE IF c = "C" THEN "c" ELSE c

\* \s of the regular expressions, and the characters str.strip()/split() drop
IsSpace(c) == c \in Whitespace

\* \w of the regular expressions
IsWord(c) == c \in LowerCase \cup UpperCase \cup Digits

\* str.lower()
LowerText(s) == [i \in 1..Len(s) |-> lower(s[i])]

RECURSIVE lstrip(_)
lstrip(s) == IF s # <<>> /\ IsSpace(Head(s)) THEN lstrip(Tail(s)) ELSE s

RECURSIVE rstrip(_)
rstrip(s) ==
    IF s # <<>> /\ IsSpace(s[Len(s)]) THEN rstrip(SubSeq(s, 1, Len(s) - 1)) ELSE s

\* str.strip()
strip(s) == rstrip(lstrip(s))

\* re.sub(r"[^\w\s]", "", t)
RemoveNonWord(s) == SelectSeq(s, LAMBDA c : IsWord(c) \/ IsSpace(c))

\* re.sub(r"\s+", " ", t): every maximal run of whitespace becomes one space
RECURSIVE CollapseSpace(_)
CollapseSpace(s) ==
    IF s = <<>> THEN <<>>
    ELSE IF IsSpace(Head(s))
         THEN <<" ">> \o CollapseSpace(lstrip(s))
         ELSE <<Head(s)>> \o CollapseSpace(Tail(s))

normalize(text) == CollapseSpace(RemoveNonWord(strip(LowerText(text))))

\* str.split(): the maximal runs of non-whitespace characters
RECURSIVE split(_)
RECURSIVE TakeWord(_)
TakeWord(s) ==
    IF s = <<>> \/ IsSpace(Head(s)) THEN <<>> ELSE <<Head(s)>> \o TakeWord(Tail(s))
split(s) ==
    LET t == lstrip(s)
        w == TakeWord(t)
    IN IF t = <<>> THEN <<>> ELSE <<w>> \o split(SubSeq(t, Len(w) + 1, Len(t)))

Range(s) == {s[i] : i \in 1..Len(s)}

\* jaccard(a, b) as the fraction <<numerator, denominator>>; 0.0 is <<0, 1>>
jaccard(a, b) ==
    LET s1 == Range(split(a))
        s2 == Range(split(b))
    IN IF s1 = {} \/ s2 = {} THEN <<0, 1>>
       ELSE <<Cardinality(s1 \cap s2), Cardinality(s1 \cup s2)>>

\* Variant: a threshold of 0.5
Below05(q) == 10 * q[1] < 5 * q[2]

\* q < 0.7
Below07(q) == 10 * q[1] < 7 * q[2]

\* Python's `a in b` on strings
IsSubstring(a, b) ==
    \E i \in 0..(Len(b) - Len(a)) : SubSeq(b, i + 1, i + Len(a)) = a


(***************************************************************************)
(* Segments and the deduplication passes of nuclear_cleanup.               *)
(***************************************************************************)
\* The subsequence of s at the indices in K, in order
SelectAt(s, K) ==
    LET F[i \in 0..Len(s)] ==
            IF i = 0 THEN <<>>
            ELSE IF i \in K THEN Append(F[i - 1], s[i]) ELSE F[i - 1]
    IN F[Len(s)]

norm(seg) == normalize(seg.text)

\* "exact": the loop over segments with its set `seen`
RECURSIVE ExactLoop(_, _, _)
ExactLoop(segs, i, seen) ==
    IF i > Len(segs) THEN <<>>
    ELSE LET n == norm(segs[i])
         IN IF n \notin seen
            THEN <<segs[i]>> \o ExactLoop(segs, i + 1, seen \cup {n})
            ELSE ExactLoop(segs, i + 1, seen)

\* Variant that stores the comparison key in the kept segment.
Pass1Normalizing(segs) ==
    LET kept == ExactLoop(segs, 1, {})
    IN [i \in 1..Len(kept) |-> [kept[i] EXCEPT !.text = normalize(@)]]

Pass1(segs) == ExactLoop(segs, 1, {})

\* Variant of Pass 2 with the lower threshold.
Pass2Below05(segs) ==
    IF Len(segs) > 1
    THEN SelectAt(segs, {i \in 1..Len(segs) :
             i = 1 \/ Below05(jaccard(norm(segs[i]), norm(segs[i - 1])))})
    ELSE segs

\* "similar adjacent": segments[i] against segments[i-1] of the pass's input
Pass2(segs) ==
    IF Len(segs) > 1
    THEN SelectAt(segs, {i \in 1..Len(segs) :
             i = 1 \/ Below07(jaccard(norm(segs[i]), norm(segs[i - 1])))})
    ELSE segs

\* Variant of Pass 3 with `and` for `or`.
Pass3And(segs) ==
    IF Len(segs) > 1
    THEN SelectAt(segs, {i \in 1..Len(segs) :
             i = 1 \/ (/\ segs[i].start_seconds - segs[i - 1].start_seconds > 5000
                       /\ norm(segs[i]) # norm(segs[i - 1]))})
    ELSE segs

\* "time near-duplicates": td > 5 or the normalized texts differ
Pass3(segs) ==
    IF Len(segs) > 1
    THEN SelectAt(segs, {i \in 1..Len(segs) :
             i = 1 \/ segs[i].start_seconds - segs[i - 1].start_seconds > 5000
                   \/ norm(segs[i]) # norm(segs[i - 1])})
    ELSE segs

\* Variant of Pass 4 that looks only at later segments.
Pass4LaterOnly(segs) ==
    SelectAt(segs, {i \in 1..Len(segs) :
        ~ \E j \in (i + 1)..Len(segs) :
              /\ IsSubstring(norm(segs[i]), norm(segs[j]))
              /\ Len(norm(segs[i])) <= Len(norm(segs[j]))})

\* "partial includes": a in b and len(a) <= len(b) for some j # i
Pass4(segs) ==
    SelectAt(segs, {i \in 1..Len(segs) :
        ~ \E j \in 1..Len(segs) :
              /\ i # j
              /\ IsSubstring(norm(segs[i]), norm(segs[j]))
              /\ Len(norm(segs[i])) <= Len(norm(segs[j]))})

nuclear_cleanup(segs) ==
    IF segs = <<>> THEN <<>> ELSE Pass4(Pass3(Pass2(Pass1(segs))))

(***************************************************************************)
(* Timestamps.                                                             *)
(***************************************************************************)
\* A timestamp string: "HH:MM:SS<sep>mmm" (form "hms"), "MM:SS<sep>mmm"
\* (form "ms", two colon-separated parts) or something int() rejects ("bad")
Stamp(form, h, m, s, ms, sep) ==
    [form |-> form, h |-> h, m |-> m, s |-> s, ms |-> ms, sep |-> sep]

\* h * 3600 + m * 60 + s + millis / 1000.0, in milliseconds; 0.0 on failure
timestamp_to_seconds(ts) ==
    IF ts.form = "bad" THEN 0
    ELSE IF ts.form = "ms" THEN (ts.m * 60 + ts.s) * 1000 + ts.ms
    ELSE (ts.h * 3600 + ts.m * 60 + ts.s) * 1000 + ts.ms

\* start.replace(".", ",")
CommaForm(ts) == [ts EXCEPT !.sep = ","]

\* "00:" + m2.group(1)
WithZeroHour(ts) == [ts EXCEPT !.form = "hms", !.h = 0]

Segment(start, end, text) ==
    [start |-> CommaForm(start), end |-> CommaForm(end), text |-> text,
     start_seconds |-> timestamp_to_seconds(start)]

(***************************************************************************)
(* Subtitle documents and their parsers.  A document is its extension and  *)
(* its blocks (the pieces between blank lines); a block is its non-empty,  *)
(* stripped lines.  A line is a bare integer ("index"), a line holding     *)
(* "-->" ("arrow") with its two timestamps, the WEBVTT header ("header"),  *)
(* or any other text ("text").                                             *)
(***************************************************************************)
NoStamp == Stamp("bad", 0, 0, 0, 0, ",")
IndexLine == [kind |-> "index", start |-> NoStamp, end |-> NoStamp, text |-> <<"1">>]
HeaderLine == [kind |-> "header", start |-> NoStamp, end |-> NoStamp, text |-> <<"w">>]
ArrowLine(start, end) ==
    [kind |-> "arrow", start |-> start, end |-> end, text |-> <<"-", "-", ">">>]
TextLine(text) == [kind |-> "text", start |-> NoStamp, end |-> NoStamp, text |-> text]

\* " ".join(lines[from:])
RECURSIVE JoinLines(_, _)
JoinLines(lines, from) ==
    IF from > Len(lines) THEN <<>>
    ELSE IF from = Len(lines) THEN lines[from].text
    ELSE lines[from].text \o <<" ">> \o JoinLines(lines, from + 1)

\* index of the first ">" of s at or after i, 0 when there is none
RECURSIVE FindClose(_, _)
FindClose(s, i) ==
    IF i > Len(s) THEN 0 ELSE IF s[i] = ">" THEN i ELSE FindClose(s, i + 1)

\* re.sub(r"<[^>]+>", "", text)
RECURSIVE StripTags(_)
StripTags(s) ==
    IF s = <<>> THEN <<>>
    ELSE LET j == FindClose(s, 2)
         IN IF Head(s) = "<" /\ j > 2
            THEN StripTags(SubSeq(s, j + 1, Len(s)))
            ELSE <<Head(s)>> \o StripTags(Tail(s))

\* The segments one SRT block appends: none or one
SrtBlock(lines) ==
    IF Len(lines) < 2 THEN <<>>
    ELSE LET ts_idx ==
                 IF lines[1].kind = "index" /\ Len(lines) >= 3
                        /\ lines[2].kind = "arrow" THEN 2
                 ELSE IF lines[1].kind = "arrow" THEN 1
                 ELSE 0
         IN IF ts_idx = 0 THEN <<>>
            ELSE LET ts == lines[ts_idx]
                     text == strip(JoinLines(lines, ts_idx + 1))
                 IN IF ts.start.form # "hms" \/ ts.end.form # "hms" THEN <<>>
                    ELSE IF text = <<>> THEN <<>>
                    ELSE <<Segment(ts.start, ts.end, text)>>

\* The segments one VTT block appends: none or one
VttBlock(lines) ==
    IF lines = <<>> THEN <<>>
    ELSE LET ts_idx ==
                 IF lines[1].kind = "arrow" THEN 1
                 ELSE IF Len(lines) > 1 /\ lines[2].kind = "arrow" THEN 2
                 ELSE 0
         IN IF ts_idx = 0 THEN <<>>
            ELSE LET ts == lines[ts_idx]
                     text == StripTags(strip(JoinLines(lines, ts_idx + 1)))
                     long == ts.start.form = "hms" /\ ts.end.form = "hms"
                     short == ts.start.form = "ms" /\ ts.end.form = "ms"
                 IN IF ~long /\ ~short THEN <<>>
                    ELSE IF text = <<>> THEN <<>>
                    ELSE IF long THEN <<Segment(ts.start, ts.end, text)>>
                    ELSE <<Segment(WithZeroHour(ts.start), WithZeroHour(ts.end),
                                   text)>>

\* re.sub(r"^WEBVTT.*\n", "", content): a header line that opens the document
StripHeader(blocks) ==
    IF blocks # <<>> /\ blocks[1] # <<>> /\ blocks[1][1].kind = "header"
    THEN <<Tail(blocks[1])>> \o Tail(blocks)
    ELSE blocks

\* The segments in the order the loop over the blocks appends them
RECURSIVE SrtCollect(_)
SrtCollect(blocks) ==
    IF blocks = <<>> THEN <<>>
    ELSE SrtBlock(Head(blocks)) \o SrtCollect(Tail(blocks))

RECURSIVE VttCollect(_)
VttCollect(blocks) ==
    IF blocks = <<>> THEN <<>>
    ELSE VttBlock(Head(blocks)) \o VttCollect(Tail(blocks))

\* list.sort(key=start_seconds): stable, by insertion after the equal keys
RECURSIVE InsertByStart(_, _)
InsertByStart(sorted, seg) ==
    IF sorted = <<>> THEN <<seg>>
    ELSE IF sorted[Len(sorted)].start_seconds <= seg.start_seconds
         THEN Append(sorted, seg)
         ELSE Append(InsertByStart(SubSeq(sorted, 1, Len(sorted) - 1), seg),
                     sorted[Len(sorted)])

RECURSIVE SortFrom(_, _, _)
SortFrom(segs, i, acc) ==
    IF i > Len(segs) THEN acc ELSE SortFrom(segs, i + 1, InsertByStart(acc, segs[i]))

\* Variant: an insertion that puts a segment before those of equal key.
RECURSIVE InsertBeforeEqual(_, _)
InsertBeforeEqual(sorted, seg) ==
    IF sorted = <<>> THEN <<seg>>
    ELSE IF sorted[Len(sorted)].start_seconds < seg.start_seconds
         THEN Append(sorted, seg)
         ELSE Append(InsertBeforeEqual(SubSeq(sorted, 1, Len(sorted) - 1), seg),
                     sorted[Len(sorted)])

RECURSIVE UnstableFrom(_, _, _)
UnstableFrom(segs, i, acc) ==
    IF i > Len(segs) THEN acc
    ELSE UnstableFrom(segs, i + 1, InsertBeforeEqual(acc, segs[i]))

SortUnstable(segs) == UnstableFrom(segs, 1, <<>>)

SortByStart(segs) == SortFrom(segs, 1, <<>>)

parse_srt(blocks) == SortByStart(SrtCollect(blocks))

parse_vtt(blocks) == SortByStart(VttCollect(StripHeader(blocks)))

\* A downloaded file: [ext, blocks]
parse_sub_file(file) ==
    IF file.ext = "srt" THEN parse_srt(file.blocks)
    ELSE IF file.ext = "vtt" THEN parse_vtt(file.blocks)
    ELSE <<>>

\* The same, before the sort
CollectedFrom(file) ==
    IF file.ext = "srt" THEN SrtCollect(file.blocks)
    ELSE IF file.ext = "vtt" THEN VttCollect(StripHeader(file.blocks))
    ELSE <<>>

(***************************************************************************)
(* The transcript service's chunks: [start, duration, text], times in ms.  *)
(***************************************************************************)
\* fmt(sec): HH:MM:SS,mmm by truncation
fmt(sec) ==
    Stamp("hms", sec \div 3600000, (sec % 3600000) \div 60000,
          (sec % 60000) \div 1000, sec % 1000, ",")

ChunkSegment(c) ==
    [start |-> fmt(c.start), end |-> fmt(c.start + c.duration), text |-> c.text,
     start_seconds |-> c.start]

ChunksCollect(chunks) == [i \in 1..Len(chunks) |-> ChunkSegment(chunks[i])]

yta_to_segments(chunks) == SortByStart(ChunksCollect(chunks))

(***************************************************************************)
(* The two acquisition collaborators.                                      *)
(***************************************************************************)
NoFile == [ext |-> "none", blocks |-> <<>>]

\* run_ytdlp_for_subs on what the tool did: subprocess.run raised (a timeout,
\* or the tool could not be started), or it exited, with whatever code, and
\* left at most one .srt and one .vtt behind.  The srt is preferred.
run_ytdlp_for_subs(outcome) ==
    IF outcome.kind \in {"timeout", "launch_error"}
    THEN [raised |-> TRUE, path |-> NoFile]
    ELSE IF outcome.srt # NoFile THEN [raised |-> FALSE, path |-> outcome.srt]
    ELSE IF outcome.vtt # NoFile THEN [raised |-> FALSE, path |-> outcome.vtt]
    ELSE [raised |-> FALSE, path |-> NoFile]

NotFound == [found |-> FALSE, segs |-> <<>>, lang |-> "none"]

Or(a, b) == IF a # "" THEN a ELSE b

\* The language yta_best_effort reports for the k-th lookup
ReportedLang(k, r) ==
    IF k <= 4 THEN Or(r.language_code, "en")
    ELSE IF k = 5 THEN "en"
    ELSE Or(r.language_code, Or(r.language, "unknown"))

\* yta_best_effort on the service's answers: resp.listing is how
\* list_transcripts ended; resp.results are the six lookups in the order tried
\* (en, en-US, en-GB, generated en, translated to en, first available), each
\* raising (ok = FALSE) or yielding chunks.
FirstHit(resp) ==
    LET hits == {k \in 1..Len(resp.results) : resp.results[k].ok}
    IN IF resp.listing # "ok" \/ hits = {} THEN 0
       ELSE CHOOSE h \in hits : \A g \in hits : h <= g

yta_best_effort(resp) ==
    LET k == FirstHit(resp)
    IN IF k = 0 THEN NotFound
       ELSE [found |-> TRUE, segs |-> yta_to_segments(resp.results[k].chunks),
             lang |-> ReportedLang(k, resp.results[k])]

(***************************************************************************)
(* Inputs of the model.                                                    *)
(***************************************************************************)
T0 == Stamp("hms", 0, 0, 0, 0, ",")
T2 == Stamp("hms", 0, 0, 2, 0, ",")
T8 == Stamp("hms", 0, 0, 8, 500, ",")

TextPool ==
    { <<"C", " ", "b", " ", "a", "!">>,
      <<"a", " ", "b", " ", "c", " ", "d">>,
      <<"a", " ", "b", " ", "c", " ", "e">>,
      <<"b">>,
      <<"B", "!">>,
      <<"!">> }

SegPool == {Segment(t, t, txt) : t \in {T0, T8}, txt \in TextPool}

SeqsUpTo(S, n) == UNION {[1..k -> S] : k \in 0..n}

NormAlphabet == {"a", "A", "!", " ", TAB}

(***************************************************************************)
(* normalize() applied to a text, then to its own result.                  *)
(***************************************************************************)
IdleNorm == x = <<>> /\ nx = <<>> /\ nnx = <<>> /\ npc = "idle"
IdleClean ==
    /\ input = <<>> /\ p1 = <<>> /\ p2 = <<>> /\ p3 = <<>>
    /\ out = <<>> /\ again = <<>> /\ cpc = "idle"
IdleReq ==
    /\ pc = "idle" /\ segments = <<>> /\ method = "none" /\ lang = "none"
    /\ attempted = <<>> /\ response = "none" /\ clean = <<>>
IdleCwd ==
    /\ cwd = "none" /\ exists = {} /\ tpc = <<>> /\ saved = <<>>
    /\ looked = <<>> /\ spawned = <<>> /\ attempts = <<>> /\ raising = <<>>

InitNorm ==
    /\ x \in SeqsUpTo(NormAlphabet, MaxLen)
    /\ nx = <<>> /\ nnx = <<>> /\ npc = "start"
    /\ IdleClean /\ IdleReq /\ IdleCwd

NormalizeOnce ==
    /\ npc = "start"
    /\ nx' = normalize(x)
    /\ npc' = "once"
    /\ UNCHANGED <<x, nnx, cleanVars, reqVars, cwdVars>>

NormalizeTwice ==
    /\ npc = "once"
    /\ nnx' = normalize(nx)
    /\ npc' = "twice"
    /\ UNCHANGED <<x, nx, cleanVars, reqVars, cwdVars>>

NextNorm == NormalizeOnce \/ NormalizeTwice

SpecNorm == InitNorm /\ [][NextNorm]_vars

(***************************************************************************)
(* nuclear_cleanup() on a segment list, pass by pass, then on its output.  *)
(***************************************************************************)
InitClean ==
    /\ input \in SeqsUpTo(SegPool, MaxSegs)
    /\ p1 = <<>> /\ p2 = <<>> /\ p3 = <<>> /\ out = <<>> /\ again = <<>>
    /\ cpc = "start"
    /\ IdleNorm /\ IdleReq /\ IdleCwd

\* if not segments: return []
CleanEmpty ==
    /\ cpc = "start" /\ input = <<>>
    /\ out' = <<>>
    /\ cpc' = "done"
    /\ UNCHANGED <<input, p1, p2, p3, again, normVars, reqVars, cwdVars>>

CleanExact ==
    /\ cpc = "start" /\ input # <<>>
    /\ p1' = Pass1(input)
    /\ cpc' = "similar"
    /\ UNCHANGED <<input, p2, p3, out, again, normVars, reqVars, cwdVars>>

CleanSimilar ==
    /\ cpc = "similar"
    /\ p2' = Pass2(p1)
    /\ cpc' = "time"
    /\ UNCHANGED <<input, p1, p3, out, again, normVars, reqVars, cwdVars>>

CleanTime ==
    /\ cpc = "time"
    /\ p3' = Pass3(p2)
    /\ cpc' = "partial"
    /\ UNCHANGED <<input, p1, p2, out, again, normVars, reqVars, cwdVars>>

CleanPartial ==
    /\ cpc = "partial"
    /\ out' = Pass4(p3)
    /\ cpc' = "done"
    /\ UNCHANGED <<input, p1, p2, p3, again, normVars, reqVars, cwdVars>>

\* the pipeline run on its own output
CleanAgain ==
    /\ cpc = "done"
    /\ again' = nuclear_cleanup(out)
    /\ cpc' = "again"
    /\ UNCHANGED <<input, p1, p2, p3, out, normVars, reqVars, cwdVars>>

NextClean ==
    CleanEmpty \/ CleanExact \/ CleanSimilar \/ CleanTime \/ CleanPartial
        \/ CleanAgain

SpecClean == InitClean /\ [][NextClean]_vars

(***************************************************************************)
(* One /transcript request.                                                *)
(***************************************************************************)
T2dot == Stamp("hms", 0, 0, 2, 0, ".")
S8 == Stamp("ms", 0, 0, 8, 500, ".")
S60 == Stamp("ms", 0, 1, 0, 0, ".")

BlockPool ==
    { <<IndexLine, ArrowLine(T2dot, T8), TextLine(<<"e">>)>>,
      <<ArrowLine(T0, T2), TextLine(<<"C", " ", "b", " ", "a", "!">>)>>,
      <<ArrowLine(T2, T8), TextLine(<<"a", " ", "b">>), TextLine(<<"c", " ", "d">>)>>,
      <<ArrowLine(NoStamp, NoStamp), TextLine(<<"b">>)>>,
      <<ArrowLine(S8, S60), TextLine(<<"<", "c", ">", "b", " ", "a">>)>>,
      <<HeaderLine>>,
      <<IndexLine, ArrowLine(T0, T2)>> }

Files(ext, n) == {[ext |-> ext, blocks |-> b] : b \in SeqsUpTo(BlockPool, n)} \ {NoFile}

ToolOutcomes ==
    {[kind |-> k, code |-> 1, srt |-> NoFile, vtt |-> NoFile] :
         k \in {"timeout", "launch_error"}}
    \cup {[kind |-> "exit", code |-> c, srt |-> NoFile, vtt |-> NoFile] : c \in {0, 1}}
    \cup {[kind |-> "exit", code |-> c, srt |-> f, vtt |-> NoFile] :
              c \in {0, 1}, f \in Files("srt", MaxBlocks)}
    \cup {[kind |-> "exit", code |-> c, srt |-> NoFile, vtt |-> f] :
              c \in {0, 1}, f \in Files("vtt", MaxBlocks)}
    \cup {[kind |-> "exit", code |-> 0, srt |-> f, vtt |-> g] :
              f \in Files("srt", 1), g \in Files("vtt", 1)}

ChunkPool ==
    { [start |-> 8500, duration |-> 1000, text |-> <<"b">>],
      [start |-> 0, duration |-> 3661001, text |-> <<"a", " ", "b", " ", "c", " ", "d">>],
      [start |-> 0, duration |-> 500, text |-> <<>>] }

Raises == [ok |-> FALSE, chunks |-> <<>>, language_code |-> "", language |-> ""]
Yields(chunks, code, language) ==
    [ok |-> TRUE, chunks |-> chunks, language_code |-> code, language |-> language]

\* The answers in which lookup k is the first to succeed (k = 7: none does)
ServiceAnswers ==
    {[listing |-> l, results |-> [i \in 1..6 |-> Raises]] :
         l \in {"disabled", "error", "ok"}}
    \cup {[listing |-> "ok",
           results |-> [i \in 1..6 |->
               IF i < k THEN Raises
               ELSE IF i = k THEN Yields(d, c, n)
               ELSE Yields(<<CHOOSE ch \in ChunkPool : ch.start > 0>>, "xx", "Other")]] :
              k \in 1..6, d \in SeqsUpTo(ChunkPool, MaxChunks),
              c \in {"en", ""}, n \in {"Deutsch", ""}}

Init ==
    /\ pc = "start" /\ segments = <<>> /\ method = "none" /\ lang = "none"
    /\ attempted = <<>> /\ response = "none" /\ clean = <<>>
    /\ IdleNorm /\ IdleClean /\ IdleCwd

\* lines 311-317: the key check, then the video id
Admit ==
    /\ pc = "start"
    /\ \E keyOk \in BOOLEAN, urlOk \in BOOLEAN :
           IF ~keyOk THEN response' = "401" /\ pc' = "done"
           ELSE IF ~urlOk THEN response' = "400" /\ pc' = "done"
           ELSE response' = response /\ pc' = "try1"
    /\ UNCHANGED <<segments, method, lang, attempted, clean>>
    /\ UNCHANGED <<normVars, cleanVars, cwdVars>>

\* One entry of the log of attempts: the method, whether the call raised, what
\* it collected in parse order and what it returned
Attempt(m, raised, raw, segs) ==
    [method |-> m, raised |-> raised, raw |-> raw, segs |-> segs]

\* `if not segments:` before Try 2 and Try 3
Variant_ShouldTryAlways(segs) == TRUE

ShouldTry(segs) == segs = <<>>

\* Try 1 - manual subs (lines 319-322)
TryManual ==
    /\ pc = "try1"
    /\ \E o \in ToolOutcomes :
           LET r == run_ytdlp_for_subs(o)
               segs == IF r.path # NoFile THEN parse_sub_file(r.path) ELSE <<>>
           IN IF r.raised
              THEN /\ response' = "500" /\ pc' = "done"
                   /\ attempted' = Append(attempted, Attempt("manual", TRUE, <<>>, <<>>))
                   /\ UNCHANGED <<segments, method>>
              ELSE /\ segments' = segs
                   /\ method' = "yt-dlp manual any-lang"
                   /\ attempted' = Append(attempted,
                          Attempt("manual", FALSE, CollectedFrom(r.path), segs))
                   /\ pc' = "try2"
                   /\ UNCHANGED response
    /\ UNCHANGED <<lang, clean, normVars, cleanVars, cwdVars>>

\* Try 2 - auto subs (lines 324-328)
TryAuto ==
    /\ pc = "try2"
    /\ IF ShouldTry(segments)
       THEN \E o \in ToolOutcomes :
           LET r == run_ytdlp_for_subs(o)
               segs == IF r.path # NoFile THEN parse_sub_file(r.path) ELSE <<>>
           IN IF r.raised
              THEN /\ response' = "500" /\ pc' = "done"
                   /\ attempted' = Append(attempted, Attempt("auto", TRUE, <<>>, <<>>))
                   /\ UNCHANGED <<segments, method>>
              ELSE /\ segments' = segs
                   /\ method' = "yt-dlp auto any-lang"
                   /\ attempted' = Append(attempted,
                          Attempt("auto", FALSE, CollectedFrom(r.path), segs))
                   /\ pc' = "try3"
                   /\ UNCHANGED response
       ELSE pc' = "try3" /\ UNCHANGED <<segments, method, attempted, response>>
    /\ UNCHANGED <<lang, clean, normVars, cleanVars, cwdVars>>

\* Try 3 - the transcript service (lines 330-336)
TryService ==
    /\ pc = "try3"
    /\ IF ShouldTry(segments)
       THEN \E a \in ServiceAnswers :
           LET yta == yta_best_effort(a)
               raw == IF yta.found THEN ChunksCollect(a.results[FirstHit(a)].chunks)
                      ELSE <<>>
           IN /\ attempted' = Append(attempted, Attempt("service", FALSE, raw, yta.segs))
              /\ IF yta.found
                 THEN /\ segments' = yta.segs
                      /\ lang' = yta.lang
                      /\ method' = "youtube-transcript-api best-effort"
                 ELSE UNCHANGED <<segments, lang, method>>
       ELSE UNCHANGED <<segments, lang, method, attempted>>
    /\ pc' = "finish"
    /\ UNCHANGED <<response, clean, normVars, cleanVars, cwdVars>>

\* lines 338-354: 404, or the cleanup and the response
Finish ==
    /\ pc = "finish"
    /\ IF segments = <<>>
       THEN response' = "404" /\ clean' = clean
       ELSE response' = "200" /\ clean' = nuclear_cleanup(segments)
    /\ pc' = "done"
    /\ UNCHANGED <<segments, method, lang, attempted>>
    /\ UNCHANGED <<normVars, cleanVars, cwdVars>>

Next == Admit \/ TryManual \/ TryAuto \/ TryService \/ Finish

Spec == Init /\ [][Next]_vars

(***************************************************************************)
(* run_ytdlp_for_subs in two requests of one process.  The endpoint is a   *)
(* plain `def`, which the framework runs on worker threads, so two         *)
(* requests interleave at every call that releases the interpreter lock.   *)
(* The working directory is one value for the whole process.               *)
(***************************************************************************)
Requests == {1, 2}
Other(t) == 3 - t

\* Try 1 and Try 2 each call run_ytdlp_for_subs once (lines 320 and 326)
ToolAttempts == 2

OrigDir == <<"orig", 0, 0>>
NoDir == <<"none", 0, 0>>
TmpDir(t, n) == <<"tmp", t, n>>
OwnTmp(t) == TmpDir(t, attempts[t])

InitCwd ==
    /\ cwd = OrigDir
    /\ exists = {OrigDir}
    /\ tpc = [t \in Requests |-> "idle"]
    /\ saved = [t \in Requests |-> NoDir]
    /\ looked = [t \in Requests |-> NoDir]
    /\ spawned = [t \in Requests |-> NoDir]
    /\ attempts = [t \in Requests |-> 0]
    /\ raising = [t \in Requests |-> FALSE]
    /\ IdleNorm /\ IdleClean /\ IdleReq

\* with tempfile.TemporaryDirectory() as tmp  (line 190)
EnterTmp(t) ==
    /\ tpc[t] = "idle" /\ attempts[t] < ToolAttempts
    /\ attempts' = [attempts EXCEPT ![t] = @ + 1]
    /\ exists' = exists \cup {TmpDir(t, attempts[t] + 1)}
    /\ looked' = [looked EXCEPT ![t] = NoDir]
    /\ spawned' = [spawned EXCEPT ![t] = NoDir]
    /\ tpc' = [tpc EXCEPT ![t] = "getcwd"]
    /\ UNCHANGED <<cwd, saved, raising>>
    /\ UNCHANGED <<normVars, cleanVars, reqVars>>

\* cwd = os.getcwd()  (line 191); it raises when the directory is gone
GetCwd(t) ==
    /\ tpc[t] = "getcwd"
    /\ IF cwd \in exists
       THEN /\ saved' = [saved EXCEPT ![t] = cwd]
            /\ tpc' = [tpc EXCEPT ![t] = "chdir"]
            /\ UNCHANGED raising
       ELSE /\ raising' = [raising EXCEPT ![t] = TRUE]
            /\ tpc' = [tpc EXCEPT ![t] = "cleanup"]
            /\ UNCHANGED saved
    /\ UNCHANGED <<cwd, exists, looked, spawned, attempts>>
    /\ UNCHANGED <<normVars, cleanVars, reqVars>>

\* os.chdir(tmp)  (line 192)
ChdirTmp(t) ==
    /\ tpc[t] = "chdir"
    /\ cwd' = OwnTmp(t)
    /\ tpc' = [tpc EXCEPT ![t] = "run"]
    /\ UNCHANGED <<exists, saved, looked, spawned, attempts, raising>>
    /\ UNCHANGED <<normVars, cleanVars, reqVars>>

\* subprocess.run(cmd, ..., timeout=300)  (line 203): the tool starts in the
\* process's working directory of that moment and writes its files there; the
\* call returns, or raises on a timeout
RunTool(t) ==
    /\ tpc[t] = "run"
    /\ spawned' = [spawned EXCEPT ![t] = cwd]
    /\ \E timedOut \in BOOLEAN :
           IF timedOut
           THEN /\ raising' = [raising EXCEPT ![t] = TRUE]
                /\ tpc' = [tpc EXCEPT ![t] = "restore"]
           ELSE /\ tpc' = [tpc EXCEPT ![t] = "glob"]
                /\ UNCHANGED raising
    /\ UNCHANGED <<cwd, exists, saved, looked, attempts>>
    /\ UNCHANGED <<normVars, cleanVars, reqVars>>

\* glob.glob("*.srt"), glob.glob("*.vtt")  (lines 205-211)
Glob(t) ==
    /\ tpc[t] = "glob"
    /\ looked' = [looked EXCEPT ![t] = cwd]
    /\ tpc' = [tpc EXCEPT ![t] = "restore"]
    /\ UNCHANGED <<cwd, exists, saved, spawned, attempts, raising>>
    /\ UNCHANGED <<normVars, cleanVars, reqVars>>

\* Variant that leaves the working directory where it is
RestoredCwdNone(t) == cwd

\* The working directory after `finally: os.chdir(cwd)`
RestoredCwd(t) == IF saved[t] \in exists THEN saved[t] ELSE cwd

\* finally: os.chdir(cwd)  (lines 212-213); it raises when the saved
\* directory is gone
Restore(t) ==
    /\ tpc[t] = "restore"
    /\ cwd' = RestoredCwd(t)
    /\ raising' = [raising EXCEPT ![t] = @ \/ saved[t] \notin exists]
    /\ tpc' = [tpc EXCEPT ![t] = "cleanup"]
    /\ UNCHANGED <<exists, saved, looked, spawned, attempts>>
    /\ UNCHANGED <<normVars, cleanVars, reqVars>>

\* leaving the `with`: the scratch directory is removed; an exception goes on
\* to the caller and ends the request
LeaveTmp(t) ==
    /\ tpc[t] = "cleanup"
    /\ exists' = exists \ {OwnTmp(t)}
    /\ tpc' = [tpc EXCEPT ![t] = IF raising[t] THEN "failed" ELSE "idle"]
    /\ UNCHANGED <<cwd, saved, looked, spawned, attempts, raising>>
    /\ UNCHANGED <<normVars, cleanVars, reqVars>>

\* the request goes on without a further run_ytdlp_for_subs
Proceed(t) ==
    /\ tpc[t] = "idle" /\ attempts[t] >= 1
    /\ tpc' = [tpc EXCEPT ![t] = "done"]
    /\ UNCHANGED <<cwd, exists, saved, looked, spawned, attempts, raising>>
    /\ UNCHANGED <<normVars, cleanVars, reqVars>>

NextCwd ==
    \E t \in Requests :
        \/ EnterTmp(t) \/ GetCwd(t) \/ ChdirTmp(t) \/ RunTool(t) \/ Glob(t)
        \/ Restore(t) \/ LeaveTmp(t) \/ Proceed(t)

SpecCwd == InitCwd /\ [][NextCwd]_vars

(***************************************************************************)
(* Properties of the deduplication pipeline.                               *)
(***************************************************************************)
RECURSIVE IsSubsequence(_, _)
IsSubsequence(a, b) ==
    IF a = <<>> THEN TRUE
    ELSE IF b = <<>> THEN FALSE
    ELSE IF Head(a) = Head(b) THEN IsSubsequence(Tail(a), Tail(b))
    ELSE IsSubsequence(a, Tail(b))

SortedByStart(s) ==
    \A i, j \in 1..Len(s) : i < j => s[i].start_seconds <= s[j].start_seconds

CleanFinished == cpc \in {"done", "again"}

\* C1: the output of nuclear_cleanup is a subsequence of its input: no longer
\* than it, made of input segments with start, end and text unchanged, in the
\* input's relative order.
C1_OutputIsSubsequence ==
    CleanFinished => Len(out) <= Len(input) /\ IsSubsequence(out, input)

C1_Witness ==
    cpc = "done" /\ Len(out) >= 2 /\ Len(out) < Len(input)
        /\ \E i \in 1..Len(out) : out[i].text # normalize(out[i].text)

\* C2: on an input sorted by start_seconds, running nuclear_cleanup on its own
\* output removes nothing further.
C2_Idempotent ==
    (cpc = "again" /\ SortedByStart(input)) => again = out

AdjacentBelow07(segs) ==
    \A i \in 2..Len(segs) : Below07(jaccard(norm(segs[i]), norm(segs[i - 1])))

\* C2 (amended): on an input sorted by start_seconds, the second run's output is
\* a subsequence of the first run's, and equals it exactly when no two adjacent
\* segments of the first run's output have a Jaccard similarity >= 0.7.
C2_SecondRunRemovesAdjacentSimilar ==
    (cpc = "again" /\ SortedByStart(input)) =>
        /\ IsSubsequence(again, out)
        /\ (again = out) <=> AdjacentBelow07(out)

\* Pass 4 removed a segment between two similar ones; the second run drops one
C2_Witness ==
    /\ cpc = "again" /\ SortedByStart(input)
    /\ Len(out) < Len(p3) /\ AdjacentBelow07(p3) /\ ~AdjacentBelow07(out)
    /\ again # out

\* Pass 2 as the specification words it: each segment against the last KEPT one
RECURSIVE KeptLoop(_, _, _)
KeptLoop(segs, i, last) ==
    IF i > Len(segs) THEN <<>>
    ELSE IF Below07(jaccard(norm(segs[i]), norm(last)))
         THEN <<segs[i]>> \o KeptLoop(segs, i + 1, segs[i])
         ELSE KeptLoop(segs, i + 1, last)

Pass2Kept(segs) ==
    IF Len(segs) > 1 THEN <<segs[1]>> \o KeptLoop(segs, 2, segs[1]) ELSE segs

\* C7: Pass 2 keeps the first segment and keeps each later one iff its Jaccard
\* similarity with the last segment Pass 2 has KEPT so far is below 0.7.
C7_Pass2AgainstLastKept ==
    cpc \in {"time", "partial", "done", "again"} => p2 = Pass2Kept(p1)

Subsumed(segs, i) ==
    \E j \in 1..Len(segs) :
        j # i /\ IsSubstring(norm(segs[i]), norm(segs[j]))

Hello == <<"h", "e", "l", "l", "o">>
HelloWorld == Hello \o <<" ", "w", "o", "r", "l", "d">>
T1 == Stamp("hms", 0, 0, 1, 0, ",")

\* C8: Pass 4 drops segment i iff some segment j at another position of its
\* input has a normalized text that contains i's; "hello" at 0.0 followed by
\* "hello world" at 1.0 leaves only "hello world".
C8_Pass4DropsSubsumed ==
    /\ (CleanFinished /\ input # <<>>) =>
           /\ IsSubsequence(out, p3)
           /\ \A i \in 1..Len(p3) : (p3[i] \in Range(out)) <=> ~Subsumed(p3, i)
    /\ Pass4(<<Segment(T0, T0, Hello), Segment(T1, T1, HelloWorld)>>)
           = <<Segment(T1, T1, HelloWorld)>>

\* a segment dropped because of an EARLIER, longer one, and another kept
C8_Witness ==
    /\ cpc = "done" /\ out # <<>>
    /\ \E i, j \in 1..Len(p3) :
           /\ i < j /\ IsSubstring(norm(p3[j]), norm(p3[i]))
           /\ p3[j].start_seconds > p3[i].start_seconds
           /\ p3[j] \notin Range(out)

\* C10: inside the pipeline Pass 3 removes nothing: its output is Pass 2's.
C10_Pass3RemovesNothing ==
    cpc \in {"partial", "done", "again"} => p3 = p2

\* the input repeats a normalized text within 5 seconds, and Pass 3 has run on
\* neighbours that are within 5 seconds of each other
C10_Witness ==
    /\ cpc = "partial" /\ Len(p2) >= 2
    /\ \E i \in 2..Len(p2) :
           p2[i].start_seconds - p2[i - 1].start_seconds \in 0..5000
    /\ \E i, j \in 1..Len(input) :
           /\ i < j /\ norm(input[i]) = norm(input[j])
           /\ input[j].start_seconds - input[i].start_seconds \in 0..5000

(***************************************************************************)
(* Properties of normalize().                                              *)
(***************************************************************************)
\* C3: normalize(normalize(x)) = normalize(x) for every text x.
C3_NormalizeIdempotent == npc = "twice" => nnx = nx

(***************************************************************************)
(* Properties of the request: the fallback chain and the ordering.         *)
(***************************************************************************)
MethodOrder == <<"manual", "auto", "service">>

MethodName(m) ==
    IF m = "manual" THEN "yt-dlp manual any-lang"
    ELSE IF m = "auto" THEN "yt-dlp auto any-lang"
    ELSE "youtube-transcript-api best-effort"

\* C4: the methods are attempted in the order manual, auto, service; a method
\* is attempted only if every earlier one yielded no segment; the segments
\* deduplicated and the method reported are those of the first method that
\* yielded a segment; three empty methods end in 404 without deduplication.
C4_FallbackOrder ==
    /\ Len(attempted) <= 3
    /\ \A k \in 1..Len(attempted) :
           /\ attempted[k].method = MethodOrder[k]
           /\ \A j \in 1..(k - 1) : attempted[j].segs = <<>>
    /\ response = "200" =>
           /\ attempted # <<>>
           /\ LET last == attempted[Len(attempted)]
              IN /\ last.segs # <<>>
                 /\ segments = last.segs
                 /\ method = MethodName(last.method)
                 /\ clean # <<>> /\ IsSubsequence(clean, last.segs)
    /\ (pc = "done" /\ Len(attempted) = 3
            /\ \A k \in 1..3 : attempted[k].segs = <<>> /\ ~attempted[k].raised)
           => response = "404" /\ clean = <<>>
    /\ response = "404" => Len(attempted) = 3

\* the service answered after two empty subtitle attempts
C4_Witness ==
    /\ response = "200" /\ Len(attempted) = 3 /\ lang = "en"
    /\ Len(segments) >= 2

\* C5: an attempt that times out or fails otherwise counts as "found nothing":
\* the request goes on to the next method, and the acquisition phase ends a
\* request only with no-transcript-available.
C5_FailedAttemptFindsNothing ==
    /\ response # "500"
    /\ \A k \in 1..Len(attempted) :
           attempted[k].raised => (pc # "done" \/ Len(attempted) = 3)

SameOrderOnTies(raw, sorted) ==
    /\ Len(raw) = Len(sorted)
    /\ \A i \in 1..Len(raw) :
           LET sameKey(seg) == seg.start_seconds = raw[i].start_seconds
           IN SelectSeq(sorted, sameKey) = SelectSeq(raw, sameKey)

\* C6: what the parsers and the service conversion return is ordered by
\* start_seconds, ties in parse order, and so is the deduplicated result.
C6_OrderedByStart ==
    /\ \A k \in 1..Len(attempted) :
           /\ SortedByStart(attempted[k].segs)
           /\ SameOrderOnTies(attempted[k].raw, attempted[k].segs)
    /\ SortedByStart(segments)
    /\ response = "200" => SortedByStart(clean) /\ IsSubsequence(clean, segments)

\* a parse that the sort reordered, with a tie that survives deduplication
C6_Witness ==
    /\ response = "200" /\ attempted # <<>>
    /\ LET last == attempted[Len(attempted)]
       IN /\ last.method # "service"
          /\ last.raw # last.segs
          /\ \E i \in 1..(Len(last.raw) - 1) :
                 /\ last.raw[i].start_seconds = last.raw[i + 1].start_seconds
                 /\ last.raw[i] # last.raw[i + 1]
    /\ \E i \in 1..(Len(clean) - 1) :
           clean[i].start_seconds = clean[i + 1].start_seconds

(***************************************************************************)
(* Properties of the working-directory handling.                           *)
(***************************************************************************)
Over(t) == tpc[t] \in {"done", "failed"}

LookedElsewhere(t) ==
    tpc[t] \in {"restore", "cleanup"} /\ looked[t] \notin {NoDir, OwnTmp(t)}

\* C9: the save / chdir / run / glob / chdir-back sequence is safe for a
\* request that runs alone and only for it: an attempt searches a directory
\* other than its own scratch directory, or the requests end with the process
\* in another working directory than at the start, only once the other
\* request has entered run_ytdlp_for_subs too; with two requests both happen.
C9_UnsafeOnlyWhenConcurrent ==
    \A t \in Requests :
        attempts[Other(t)] = 0 =>
            /\ ~LookedElsewhere(t)
            /\ tpc[t] \in {"glob", "restore"} => cwd = OwnTmp(t)
            /\ tpc[t] \in {"idle", "done"} => cwd = OrigDir

\* both requests are over, one of them searched the other's scratch
\* directory, and the process is not back in its original directory
C9_Witness ==
    /\ \A t \in Requests : Over(t)
    /\ \E t \in Requests : looked[t] \notin {NoDir, OwnTmp(t)}
    /\ cwd # OrigDir

====
